---------------------------- MODULE Spec2Model ----------------------------
(***************************************************************************)
(* A model of hyswap: percentile thresholds by day of year                 *)
(* (hyswap/percentiles.py), the sample metadata (hyswap/utils.py) and the  *)
(* area-weighted runoff (hyswap/runoff.py).                                *)
(*                                                                         *)
(* The library is stateless between calls.  The model is a caller that     *)
(* makes one call at a time: from "idle" it calls one function with inputs *)
(* drawn from bounded sets, the call runs (the by-day engine one day of    *)
(* its loop per step), and the caller returns to "idle".                   *)
(*                                                                         *)
(* Floating point numbers are modelled as exact fractions [n, d] in lowest *)
(* terms with d > 0; d = 0 encodes the non-finite values: n = 0 is NaN,    *)
(* n = 1 is +inf and n = -1 is -inf.  Rounding error is not modelled.      *)
(***************************************************************************)
EXTENDS Integers, Sequences, FiniteSets, TLC

VARIABLES call, pc, ret, df, table, doy, invoked, pending

vars == <<call, pc, ret, df, table, doy, invoked, pending>>

\* ------------------------------------------------------------------------
\* Numbers
\* ------------------------------------------------------------------------

Abs(x) == IF x < 0 THEN -x ELSE x

RECURSIVE GCD(_, _)
GCD(a, b) == IF b = 0 THEN a ELSE GCD(b, a % b)

NaN == [n |-> 0, d |-> 0]

IsNaN(x) == x.d = 0 /\ x.n = 0

IsFinite(x) == x.d > 0

Sign(k) == IF k > 0 THEN 1 ELSE IF k < 0 THEN -1 ELSE 0

\* The fraction num/den in lowest terms (den = 0: NaN or a signed infinity).
Frac(num, den) ==
    IF den = 0 THEN [n |-> Sign(num), d |-> 0]
    ELSE LET s == IF den < 0 THEN -1 ELSE 1
             g == GCD(Abs(num), Abs(den))
         IN  [n |-> (s * num) \div g, d |-> (s * den) \div g]

Num(k) == [n |-> k, d |-> 1]

RAdd(x, y) ==
    IF IsFinite(x) /\ IsFinite(y) THEN Frac(x.n * y.d + y.n * x.d, x.d * y.d)
    ELSE IF IsNaN(x) \/ IsNaN(y) THEN NaN
    ELSE IF ~IsFinite(x) /\ ~IsFinite(y) /\ x.n # y.n THEN NaN
    ELSE IF ~IsFinite(x) THEN x ELSE y

RNeg(x) == [n |-> -x.n, d |-> x.d]

RSub(x, y) == RAdd(x, RNeg(y))

RMul(x, y) ==
    IF IsFinite(x) /\ IsFinite(y) THEN Frac(x.n * y.n, x.d * y.d)
    ELSE IF IsNaN(x) \/ IsNaN(y) THEN NaN
    ELSE IF x.n = 0 \/ y.n = 0 THEN NaN
    ELSE [n |-> Sign(x.n) * Sign(y.n), d |-> 0]

\* IEEE division: x/0 is a signed infinity, 0/0 and inf/inf are NaN.
RDiv(x, y) ==
    IF IsNaN(x) \/ IsNaN(y) THEN NaN
    ELSE IF IsFinite(x) /\ IsFinite(y) THEN Frac(x.n * y.d, x.d * y.n)
    ELSE IF ~IsFinite(x) /\ ~IsFinite(y) THEN NaN
    ELSE IF ~IsFinite(x) THEN [n |-> x.n * (IF y.n < 0 THEN -1 ELSE 1), d |-> 0]
    ELSE Num(0)

\* IEEE comparisons: every comparison with NaN is false.
RLt(x, y) ==
    /\ ~IsNaN(x) /\ ~IsNaN(y)
    /\ IF IsFinite(x) /\ IsFinite(y) THEN x.n * y.d < y.n * x.d
       ELSE IF ~IsFinite(x) /\ ~IsFinite(y) THEN x.n < y.n
       ELSE IF ~IsFinite(x) THEN x.n < 0 ELSE y.n > 0

REq(x, y) == ~IsNaN(x) /\ ~IsNaN(y) /\ x = y

RLe(x, y) == RLt(x, y) \/ REq(x, y)

Range(s) == {s[i] : i \in DOMAIN s}

RECURSIVE SumSeq(_)
SumSeq(s) == IF s = <<>> THEN Num(0) ELSE RAdd(Head(s), SumSeq(Tail(s)))

\* The values of s that are not NaN, in their order.
DropNaN(s) == SelectSeq(s, LAMBDA x : ~IsNaN(x))

\* The sequence s, evaluated once (a function expression is otherwise
\* evaluated again at each application).
Stored(s) == s \o <<>>

\* s rearranged so that the element of rank[i] = k comes k-th.
Permuted(s, rank) == Stored([k \in DOMAIN s |-> s[CHOOSE i \in DOMAIN s : rank[i] = k]])

\* s sorted ascending (s holds no NaN): an element's rank is one more than
\* the number of elements before it, ties broken by position.
SortValues(s) ==
    Permuted(s, Stored([i \in DOMAIN s |->
        Cardinality({j \in DOMAIN s : RLt(s[j], s[i]) \/ (s[j] = s[i] /\ j < i)}) + 1]))

\* ------------------------------------------------------------------------
\* Fixed percentile thresholds (hyswap/percentiles.py)
\* ------------------------------------------------------------------------

\* The quantile methods of numpy.percentile the source uses: 'weibull' is
\* the default of both functions, 'linear' the one of the docstrings.
Methods == {"weibull", "linear"}

\* A wrong virtual index: the 'weibull' one whatever the method.
VirtualIndexWeibull(n, p, method) == (n + 1) * p - 100

\* numpy's virtual index of percentile p (0..100) in n sorted values, times
\* 100: (n-1)q for 'linear', (n+1)q - 1 for 'weibull', with q = p/100.
VirtualIndex100(n, p, method) ==
    IF method = "linear" THEN (n - 1) * p ELSE (n + 1) * p - 100

\* A wrong quantile: the positions counted from the largest value down.
QuantileFromTop(a, p, method) ==
    LET n == Len(a)
        v == (n - 1) * p
        j == v \div 100
        g == v % 100
    IN  IF j >= n - 1 THEN a[1]
        ELSE RAdd(a[n - j], RMul(Frac(g, 100), RSub(a[n - j - 1], a[n - j])))

\* numpy's quantile of the sorted, non-empty, NaN-free sequence a: the value
\* at the virtual index, interpolated linearly between its neighbours; an
\* index below the first (at or above the last) position gives the first
\* (last) value.
Quantile(a, p, method) ==
    LET n == Len(a)
        v == VirtualIndex100(n, p, method)
        j == v \div 100
        g == v % 100
    IN  IF v >= 100 * (n - 1) THEN a[n]
        ELSE IF v < 0 THEN a[1]
        ELSE RAdd(a[j + 1], RMul(Frac(g, 100), RSub(a[j + 2], a[j + 1])))

Quantiles(a, percentiles, method) ==
    Stored([i \in DOMAIN percentiles |-> Quantile(a, percentiles[i], method)])

\* numpy.percentile(data, percentiles): the possible outcomes, each
\* [raised, values].  A NaN in the data makes every percentile NaN.  On empty
\* data numpy >= 1.22 (the first with method='weibull') raises IndexError
\* where older code paths returned NaN: both outcomes are kept.
NpPercentile(data, percentiles, method) ==
    IF Len(data) = 0
        THEN {[raised |-> TRUE, values |-> <<>>],
              [raised |-> FALSE, values |-> [i \in DOMAIN percentiles |-> NaN]]}
    ELSE IF \E i \in DOMAIN data : IsNaN(data[i])
        THEN {[raised |-> FALSE, values |-> [i \in DOMAIN percentiles |-> NaN]]}
    ELSE {[raised |-> FALSE, values |-> Quantiles(SortValues(data), percentiles, method)]}

\* numpy.nanpercentile(data, percentiles): NaN values are dropped first; when
\* nothing is left (empty or all-NaN data) the result is NaN, not an error.
NpNanPercentile(data, percentiles, method) ==
    LET kept == DropNaN(data)
    IN  IF Len(kept) = 0
            THEN {[raised |-> FALSE, values |-> [i \in DOMAIN percentiles |-> NaN]]}
        ELSE {[raised |-> FALSE, values |-> Quantiles(SortValues(kept), percentiles, method)]}

\* calculate_fixed_percentile_thresholds: the one-row frame whose columns
\* ("thresholds") are the requested percentiles and whose row "values" holds
\* their values; the set of possible outcomes.
calculate_fixed_percentile_thresholds(data, percentiles, method, ignore_na) ==
    LET pct == IF ignore_na THEN NpNanPercentile(data, percentiles, method)
               ELSE NpPercentile(data, percentiles, method)
    IN  {[raised |-> o.raised, thresholds |-> percentiles, values |-> o.values] : o \in pct}

\* ------------------------------------------------------------------------
\* Percentile of a value (hyswap/percentiles.py)
\* ------------------------------------------------------------------------

\* A wrong interpolation: outside xp the line of the nearest segment goes on.
InterpExtrapolating(x, xp, fp) ==
    LET n == Len(xp)
        j == Cardinality({i \in 1..n : RLe(xp[i], x)})
        k == IF n = 1 THEN 1 ELSE IF j < 1 THEN 1 ELSE IF j >= n THEN n - 1 ELSE j
    IN  IF IsNaN(x) THEN x
        ELSE IF n = 1 \/ REq(xp[k + 1], xp[k]) THEN fp[k]
        ELSE RAdd(fp[k],
                  RMul(RDiv(RSub(fp[k + 1], fp[k]), RSub(xp[k + 1], xp[k])),
                       RSub(x, xp[k])))

\* numpy.interp(x, xp, fp) with the default left and right: xp non-empty,
\* finite and non-decreasing.  j is the last position with xp[j] <= x.
NpInterp(x, xp, fp) ==
    LET n == Len(xp)
        j == Cardinality({i \in 1..n : RLe(xp[i], x)})
    IN  IF IsNaN(x) THEN x
        ELSE IF RLt(xp[n], x) THEN fp[n]
        ELSE IF RLt(x, xp[1]) THEN fp[1]
        ELSE IF j = n THEN fp[n]
        ELSE IF REq(xp[j], x) THEN fp[j]
        ELSE RAdd(fp[j],
                  RMul(RDiv(RSub(fp[j + 1], fp[j]), RSub(xp[j + 1], xp[j])),
                       RSub(x, xp[j])))

\* calculate_percentile_from_value(value, percentile_df): the columns of the
\* frame are the ranks, its row the threshold values.
calculate_percentile_from_value(value, percentile_df) ==
    LET thresholds == [i \in DOMAIN percentile_df.thresholds |->
                          Num(percentile_df.thresholds[i])]
        percentile_values == percentile_df.values
    IN  NpInterp(value, percentile_values, thresholds)

\* ------------------------------------------------------------------------
\* Sample metadata (hyswap/utils.py)
\* ------------------------------------------------------------------------

\* A series with a datetime index is a set of records [year, doy, val], one
\* per date: doy is the calendar ordinal of the date (1..366).
NaT == [year |-> 0, doy |-> 0]

DateOf(r) == [year |-> r.year, doy |-> r.doy]

DateLe(a, b) == a.year < b.year \/ (a.year = b.year /\ a.doy <= b.doy)

MinDate(data) ==
    IF data = {} THEN NaT
    ELSE DateOf(CHOOSE r \in data : \A q \in data : DateLe(DateOf(r), DateOf(q)))

MaxDate(data) ==
    IF data = {} THEN NaT
    ELSE DateOf(CHOOSE r \in data : \A q \in data : DateLe(DateOf(q), DateOf(r)))

SetMax(S) == CHOOSE x \in S : \A y \in S : y <= x

SetMin(S) == CHOOSE x \in S : \A y \in S : x <= y

\* The threshold of a "low" value, 0.01.
LowValue == Frac(1, 100)

\* A wrong expected_years: the difference of the last and the first year.
YearsApart(years) ==
    IF years = {} THEN NaN ELSE Num(SetMax(years) - SetMin(years))

\* expected_years = data.index.year.max() - data.index.year.min() + 1: the
\* max and min of the years of an empty index are NaN.
ExpectedYears(years) ==
    IF years = {} THEN NaN ELSE Num(SetMax(years) - SetMin(years) + 1)

\* calculate_metadata(data); n_gaps of an empty sample is NaN.
calculate_metadata(data) ==
    LET years == {r.year : r \in data}
        n_years == Cardinality(years)
        expected_years == ExpectedYears(years)
    IN  [n_years |-> n_years,
         n_data |-> Cardinality(data),
         n_gaps |-> RSub(expected_years, Num(n_years)),
         start_date |-> MinDate(data),
         end_date |-> MaxDate(data),
         n_zeros |-> Cardinality({r \in data : REq(r.val, Num(0))}),
         n_nans |-> Cardinality({r \in data : IsNaN(r.val)}),
         n_lows |-> Cardinality({r \in data : RLe(r.val, LowValue)})]

\* ------------------------------------------------------------------------
\* Calendar
\* ------------------------------------------------------------------------

IsLeap(y) == y % 4 = 0 /\ (y % 100 # 0 \/ y % 400 = 0)

YearLen(y) == IF IsLeap(y) THEN 366 ELSE 365

\* The number of the day (year, doy), counted from the start of the
\* proleptic Gregorian calendar.
AbsDay(year, d) ==
    365 * (year - 1) + (year - 1) \div 4 - (year - 1) \div 100 + (year - 1) \div 400 + d

\* February 29: the 60th day of a leap year.
IsLeapDay(r) == IsLeap(r.year) /\ r.doy = 60

\* The days of the months of 1900, the year strptime gives a date parsed
\* from a '%j' ordinal alone (1900 is no leap year).
MonthLen == <<31, 28, 31, 30, 31, 30, 31, 31, 30, 31, 30, 31>>

RECURSIVE DaysBeforeMonth(_)
DaysBeforeMonth(m) == IF m = 1 THEN 0 ELSE DaysBeforeMonth(m - 1) + MonthLen[m - 1]

\* pd.to_datetime(r, format='%j').strftime('%m-%d') for r in 1..365, as the
\* pair <<month, day>> (the label "mm-dd" orders as the pair does).
MonthDay(r) ==
    LET m == CHOOSE k \in 1..12 : DaysBeforeMonth(k) < r /\ r <= DaysBeforeMonth(k) + MonthLen[k]
    IN  <<m, r - DaysBeforeMonth(m)>>

YearTypes == {"calendar", "water", "climate"}

\* define_year_doy_columns(df, year_type, clip_leap_day): labels each record
\* with the year of its cycle and its day within the cycle, and with
\* clip_leap_day drops the records of February 29.  (This function is
\* imported from hyswap.utils.)
define_year_doy_columns(frame, year_type, clip_leap_day) ==
    LET start == IF year_type = "water" THEN 274
                 ELSE IF year_type = "climate" THEN 91 ELSE 1
        \* the ordinal on the 365-day scheme: after a leap day, one less
        ord(r) == IF IsLeap(r.year) /\ r.doy > 60 THEN r.doy - 1 ELSE r.doy
        label(r) == IF start > 1 /\ ord(r) >= start THEN r.year + 1 ELSE r.year
        rel(r) == IF ord(r) >= start THEN ord(r) - start + 1 ELSE ord(r) - start + 366
        kept == IF clip_leap_day THEN {r \in frame : ~IsLeapDay(r)} ELSE frame
    IN  {[year |-> r.year, doy |-> r.doy, val |-> r.val,
          cycle_year |-> label(r), cycle_doy |-> rel(r)] : r \in kept}

DataTypes == {"daily", "7-day", "14-day", "28-day"}

\* set_data_type(data_type): the rolling window of a data type, in days
\* ('daily' -> '1D', '7-day' -> '7D', ...).  (Imported from hyswap.utils.)
set_data_type(data_type) ==
    IF data_type = "daily" THEN 1
    ELSE IF data_type = "7-day" THEN 7
    ELSE IF data_type = "14-day" THEN 14
    ELSE 28

\* The records of a series in date order, as a sequence.
SeqOfDates(data) ==
    LET n == Cardinality(data)
        rank(r) == Cardinality({q \in data : DateLe(DateOf(q), DateOf(r))})
    IN  Stored([k \in 1..n |-> CHOOSE r \in data : rank(r) = k])

ValuesOf(data) == LET s == SeqOfDates(data) IN Stored([k \in DOMAIN s |-> s[k].val])

\* rolling_average(df, data_column_name, data_type):
\* df[col].rolling('<N>D').mean().to_frame().  The window of a date t holds
\* the dates in (t - N days, t]; with an offset window min_periods is 1, so
\* the mean is taken over the values of the window that are not NaN and is
\* NaN only when there is none.  Only the data column is kept.
rolling_average(frame, window_days) ==
    LET window(r) == {q \in frame :
                        /\ AbsDay(q.year, q.doy) > AbsDay(r.year, r.doy) - window_days
                        /\ AbsDay(q.year, q.doy) <= AbsDay(r.year, r.doy)}
        valid(r) == DropNaN(ValuesOf(window(r)))
        mean(r) == IF Len(valid(r)) = 0 THEN NaN
                   ELSE RDiv(SumSeq(valid(r)), Num(Len(valid(r))))
    IN  {[year |-> r.year, doy |-> r.doy, val |-> mean(r)] : r \in frame}

\* filter_data_by_time(df, value, data_column_name, leading_values,
\* trailing_values, drop_na) for the 'day' interval: the values whose day of
\* year lies in [value - leading_values, value + trailing_values], without
\* the missing ones when drop_na is set.  (Imported from hyswap.utils.)
filter_data_by_time(frame, value, leading_values, trailing_values, drop_na) ==
    LET near == {r \in frame : value - leading_values <= r.doy
                               /\ r.doy <= value + trailing_values}
    IN  IF drop_na THEN {r \in near : ~IsNaN(r.val)} ELSE near

\* ------------------------------------------------------------------------
\* Variable percentile thresholds by day (hyswap/percentiles.py)
\* ------------------------------------------------------------------------

\* min_day = np.nanmax((1, df.index.dayofyear.min()))
MinDay(frame) == LET m == SetMin({r.doy : r \in frame}) IN IF m < 1 THEN 1 ELSE m

\* max_day = np.nanmin((366, df.index.dayofyear.max() + 1))
MaxDay(frame) == LET m == SetMax({r.doy : r \in frame}) + 1 IN IF m > 366 THEN 366 ELSE m

\* t_idx = np.arange(min_day, max_day), the range of the loop as well
TIdx(frame) == {d \in MinDay(frame)..366 : d < MaxDay(frame)}

\* A wrong gate: open whatever the metadata says.
GateOpen(meta, min_years) == meta["n_years"] >= 0

\* A wrong gate: the number of data points in place of the number of years.
EnoughData(meta, min_years) == meta["n_data"] >= min_years

\* A wrong gate: a strict comparison.
MoreYears(meta, min_years) == meta["n_years"] > min_years

\* The test of the loop that decides whether thresholds are computed.
EnoughYears(meta, min_years) == meta["n_years"] >= min_years

NaNRow(percentiles) == [i \in DOMAIN percentiles |-> NaN]

\* A wrong doy_index: the shifted ordinal is not brought back into the year.
DoyIndexUnwrapped(r, year_type) ==
    IF year_type = "water" THEN r - 273
    ELSE IF year_type = "climate" THEN r - 90
    ELSE r

\* A wrong doy_index: shifted by the first day of the cycle, not by the
\* number of days before it.
DoyIndexByStart(r, year_type) ==
    LET shifted == IF year_type = "water" THEN r - 274
                   ELSE IF year_type = "climate" THEN r - 91
                   ELSE r
    IN  IF year_type # "calendar" /\ shifted < 1 THEN shifted + 365 ELSE shifted

\* doy_index: the day of year relative to the start of the year type.
DoyIndex(r, year_type) ==
    LET shifted == IF year_type = "water" THEN r - 273
                   ELSE IF year_type = "climate" THEN r - 90
                   ELSE r
    IN  IF year_type # "calendar" /\ shifted < 1 THEN shifted + 365 ELSE shifted

KeyLt(a, b) ==
    \/ a.doy < b.doy
    \/ a.doy = b.doy /\ a.month_day[1] < b.month_day[1]
    \/ a.doy = b.doy /\ a.month_day[1] = b.month_day[1] /\ a.month_day[2] < b.month_day[2]

\* The rows [doy, month_day, values] of a set in the order of their labels.
ByLabel(rows) ==
    LET n == Cardinality(rows)
        rank(r) == Cardinality({q \in rows : KeyLt(q, r)}) + 1
    IN  [k \in 1..n |-> CHOOSE r \in rows : rank(r) = k]

\* The rows with doy in lo..hi in the order of (doy, month-day).
RECURSIVE InKeyOrder(_, _, _)
InKeyOrder(rows, lo, hi) ==
    IF rows = {} THEN <<>>
    ELSE IF lo >= hi THEN ByLabel(rows)
    ELSE LET mid == (lo + hi) \div 2
         IN  InKeyOrder({r \in rows : r.doy <= mid}, lo, mid)
                 \o InKeyOrder({r \in rows : r.doy > mid}, mid + 1, hi)

\* The rows of the table under the multi-index (doy, month-day), sorted by
\* it: sort_index orders by doy, then by the label.
Reindexed(tbl, year_type) ==
    LET rows == {[doy |-> DoyIndex(d, year_type), month_day |-> MonthDay(d),
                  values |-> tbl[d]] : d \in DOMAIN tbl}
        keys == {r.doy : r \in rows}
    IN  IF rows = {} THEN <<>> ELSE InKeyOrder(rows, SetMin(keys), SetMax(keys))

\* ------------------------------------------------------------------------
\* Area-weighted runoff (hyswap/runoff.py)
\* ------------------------------------------------------------------------

\* A site's frame is [site_no, first, runoff]: the site, its first date and
\* the runoff of the consecutive dates from it (dates are day numbers).  A
\* start_date or end_date that is not given (None) is 0.
NoDate == 0

FirstDate(frame) == frame.first

LastDate(frame) == frame.first + Len(frame.runoff) - 1

\* _get_date_range(df_list, start_date, end_date): without a start (end)
\* date, the earliest first (the latest last) date of the frames;
\* df_list[0] of an empty list raises IndexError.
get_date_range(df_list, start_date, end_date) ==
    IF df_list = <<>> /\ (start_date = NoDate \/ end_date = NoDate)
        THEN [raised |-> TRUE, dates |-> {}]
    ELSE LET start == IF start_date = NoDate
                         THEN SetMin({FirstDate(df_list[i]) : i \in DOMAIN df_list})
                      ELSE start_date
             end == IF end_date = NoDate
                       THEN SetMax({LastDate(df_list[i]) : i \in DOMAIN df_list})
                    ELSE end_date
         IN  [raised |-> FALSE, dates |-> start..end]

\* The elements of a set of integers in ascending order.
Ascend(S) ==
    Stored([k \in 1..Cardinality(S) |->
               CHOOSE x \in S : Cardinality({y \in S : y < x}) = k - 1])

\* The sum of the values of a set-indexed family f over S, skipping NaN
\* (sum(skipna=True): the sum of nothing is 0).
SumSkipNa(f, S) ==
    LET order == Ascend(S)
    IN  SumSeq(DropNaN([k \in DOMAIN order |-> f[order[k]]]))

\* The value the frame gives for a date: NaN for a date it does not have.
RunoffAt(frame, date) ==
    IF FirstDate(frame) <= date /\ date <= LastDate(frame)
        THEN frame.runoff[date - frame.first + 1]
    ELSE NaN

\* A wrong row: a missing weight counts as the weight 1.
UnitWeightedRow(site_id, df_list, weights, dates) ==
    LET mine == {i \in DOMAIN df_list : df_list[i].site_no = site_id}
        weight == IF IsNaN(weights[site_id]) THEN Num(1) ELSE weights[site_id]
    IN  [t \in dates |->
            IF mine = {} THEN NaN
            ELSE RMul(weight, RunoffAt(df_list[SetMax(mine)], t))]

\* The row of runoff_df for a site after the loop over df_list: the weighted
\* runoff of the last frame of the site, aligned on the dates; NaN when the
\* list holds no frame of the site.
WeightedRow(site_id, df_list, weights, dates) ==
    LET mine == {i \in DOMAIN df_list : df_list[i].site_no = site_id}
    IN  [t \in dates |->
            IF mine = {} THEN NaN
            ELSE RMul(weights[site_id], RunoffAt(df_list[SetMax(mine)], t))]

\* weights_sum = weights_matrix[geoid].sum(skipna=True): over the whole column
WeightsSum(weights) == SumSkipNa(weights, DOMAIN weights)

\* calculate_geometric_runoff(geoid, df_list, weights_matrix, start_date,
\* end_date): weights is the column of the geometry, site -> weight.  A site
\* of df_list that the weights matrix does not list raises KeyError.
calculate_geometric_runoff(df_list, weights, start_date, end_date) ==
    LET date_range == get_date_range(df_list, start_date, end_date)
        site_list == DOMAIN weights
    IN  IF date_range.raised \/ \E i \in DOMAIN df_list : df_list[i].site_no \notin site_list
            THEN [raised |-> TRUE, dates |-> {}, values |-> <<>>]
        ELSE LET runoff_df == [s \in site_list |->
                                  WeightedRow(s, df_list, weights, date_range.dates)]
                 runoff_sum == [t \in date_range.dates |->
                                  SumSkipNa([s \in site_list |-> runoff_df[s][t]], site_list)]
                 weights_sum == WeightsSum(weights)
             IN  [raised |-> FALSE, dates |-> date_range.dates,
                  values |-> [t \in date_range.dates |-> RDiv(runoff_sum[t], weights_sum)]]

\* ------------------------------------------------------------------------
\* Streamflow to runoff (hyswap/runoff.py)
\* ------------------------------------------------------------------------

\* The products of the conversion do not fit a machine integer.  A natural
\* number is the sequence of its digits in base 10000, lowest first, without
\* a leading zero digit (zero is the empty sequence); a quantity is a
\* quotient [n, d] of two of them, d not zero.
RECURSIVE BigOf(_)
BigOf(k) == IF k = 0 THEN <<>> ELSE <<k % 10000>> \o BigOf(k \div 10000)

RECURSIVE BigAddCarry(_, _, _)
BigAddCarry(a, b, carry) ==
    IF a = <<>> /\ b = <<>> THEN BigOf(carry)
    ELSE LET x == IF a = <<>> THEN 0 ELSE Head(a)
             y == IF b = <<>> THEN 0 ELSE Head(b)
             t == x + y + carry
         IN  <<t % 10000>> \o BigAddCarry(IF a = <<>> THEN a ELSE Tail(a),
                                          IF b = <<>> THEN b ELSE Tail(b),
                                          t \div 10000)

BigAdd(a, b) == BigAddCarry(a, b, 0)

RECURSIVE BigTimesCarry(_, _, _)
BigTimesCarry(a, k, carry) ==
    IF a = <<>> THEN BigOf(carry)
    ELSE LET t == Head(a) * k + carry
         IN  <<t % 10000>> \o BigTimesCarry(Tail(a), k, t \div 10000)

\* a times the digit k
BigTimes(a, k) == IF k = 0 THEN <<>> ELSE BigTimesCarry(a, k, 0)

BigShift(a) == IF a = <<>> THEN a ELSE <<0>> \o a

RECURSIVE BigMul(_, _)
BigMul(a, b) ==
    IF b = <<>> THEN <<>>
    ELSE BigAdd(BigTimes(a, Head(b)), BigShift(BigMul(a, Tail(b))))

\* a <= b, by the number of digits and then from the highest digit down
RECURSIVE BigLeFrom(_, _, _)
BigLeFrom(a, b, i) ==
    IF i = 0 THEN TRUE
    ELSE IF a[i] # b[i] THEN a[i] < b[i]
    ELSE BigLeFrom(a, b, i - 1)

BigLe(a, b) ==
    IF Len(a) # Len(b) THEN Len(a) < Len(b) ELSE BigLeFrom(a, b, Len(a))

QFrac(num, den) == [n |-> BigOf(num), d |-> BigOf(den)]

QOf(k) == QFrac(k, 1)

QMul(x, y) == [n |-> BigMul(x.n, y.n), d |-> BigMul(x.d, y.d)]

QDiv(x, y) == [n |-> BigMul(x.n, y.d), d |-> BigMul(x.d, y.n)]

QAdd(x, y) ==
    [n |-> BigAdd(BigMul(x.n, y.d), BigMul(y.n, x.d)), d |-> BigMul(x.d, y.d)]

QLe(x, y) == BigLe(BigMul(x.n, y.d), BigMul(y.n, x.d))

QEq(x, y) == BigMul(x.n, y.d) = BigMul(y.n, x.d)

\* A wrong power: the square.
Squared(x) == QMul(x, x)

\* x ** 3
Cubed(x) == QMul(QMul(x, x), x)

\* The frequencies convert_cfs_to_runoff knows.
Frequencies == {"annual", "monthly", "daily"}

\* convert_cfs_to_runoff(cfs, drainage_area, frequency): [raised, value]; a
\* frequency it does not know raises ValueError.
convert_cfs_to_runoff(cfs, drainage_area, frequency) ==
    IF frequency \notin Frequencies THEN [raised |-> TRUE, value |-> QOf(0)]
    ELSE LET freq == IF frequency = "annual" THEN QFrac(36525, 100)
                     ELSE IF frequency = "monthly" THEN QDiv(QFrac(36525, 100), QOf(12))
                     ELSE QOf(1)
             foot == QFrac(3048, 10000)
             cpf == QMul(QMul(QMul(QMul(QOf(cfs), QOf(60)), QOf(60)), QOf(24)), freq)
             cpm == QMul(cpf, Cubed(foot))
             area == QMul(QMul(QOf(drainage_area), QOf(1000)), QOf(1000))
             mmyr == QMul(QDiv(cpm, area), QOf(1000))
         IN  [raised |-> FALSE, value |-> mmyr]

\* streamflow_to_runoff(df, data_col, drainage_area, frequency): df is the
\* sequence of its rows, each [streamflow].  apply calls the conversion once
\* for each row, so it raises what the conversion raises when there is a row
\* and calls nothing when there is none; the column 'runoff' is assigned
\* after apply has returned.
streamflow_to_runoff(frame, drainage_area, frequency) ==
    LET applied == [i \in DOMAIN frame |->
                       convert_cfs_to_runoff(frame[i].streamflow, drainage_area, frequency)]
    IN  IF \E i \in DOMAIN frame : applied[i].raised
            THEN [raised |-> TRUE, rows |-> <<>>]
        ELSE [raised |-> FALSE,
              rows |-> [i \in DOMAIN frame |->
                          [streamflow |-> frame[i].streamflow,
                           runoff |-> applied[i].value]]]

\* ------------------------------------------------------------------------
\* Approved data (hyswap/utils.py)
\* ------------------------------------------------------------------------

\* filter_column=None
NoColumn == "None"

\* filter_approved_data(data, filter_column): data is the sequence of its
\* rows, each a record of its columns; without a filter column ValueError.
filter_approved_data(data, filter_column) ==
    IF filter_column = NoColumn THEN [raised |-> TRUE, rows |-> <<>>]
    ELSE LET Approved(row) == row[filter_column] = "A"
         IN  [raised |-> FALSE, rows |-> SelectSeq(data, Approved)]

\* ------------------------------------------------------------------------
\* Inputs
\* ------------------------------------------------------------------------

\* The longest sample handed to the fixed-percentile function.
MaxLen == 3

\* The largest data value.
MaxVal == 2

\* The largest number of records of a series.
MaxRecords == 2

\* The largest min_years.
MaxMinYears == 2

DataValues == {NaN} \cup {Num(k) : k \in 0..MaxVal}

RECURSIVE SeqsUpTo(_, _)
SeqsUpTo(S, n) ==
    IF n = 0 THEN {<<>>}
    ELSE LET shorter == SeqsUpTo(S, n - 1)
         IN  shorter \cup {Append(t, x) : t \in {u \in shorter : Len(u) = n - 1}, x \in S}

\* np.arange(101), the sample of the docstrings.
Arange101 == [i \in 1..101 |-> Num(i - 1)]

Samples == SeqsUpTo(DataValues, MaxLen) \cup {Arange101}

DefaultPercentiles == <<0, 5, 10, 25, 75, 90, 95, 100>>

PctLists == {DefaultPercentiles, <<0, 50, 100>>, <<90, 10>>}

\* The series over the dates `slots` (records [year, doy]) with at most
\* `most` records, none of them on a day its year does not have.
SeriesOver(slots, vals, most) ==
    LET valid == {s \in slots : s.doy <= YearLen(s.year)}
        dates == {D \in SUBSET valid : Cardinality(D) \in 1..most}
    IN  UNION {{{[year |-> s.year, doy |-> s.doy, val |-> f[s]] : s \in D} : f \in [D -> vals]}
               : D \in dates}

\* The years of the by-day engine's series: 2020 is a leap year.
Years == {2019, 2020}

\* Two consecutive days at the leap day, at the start of the water year and
\* at the end of the year ...
Clusters == {{60, 61}, {273, 274}, {365, 366}}

EngineValues == {NaN, Num(1), Num(2)}

\* ... and a long series: the first and the last day of a leap year.
EngineSeries ==
    UNION {SeriesOver({[year |-> y, doy |-> d] : y \in Years, d \in c}, EngineValues, MaxRecords)
           : c \in Clusters}
    \cup {{[year |-> 2020, doy |-> 1, val |-> Num(1)],
           [year |-> 2020, doy |-> 366, val |-> Num(2)]}}

\* The settings of the engine.  method stays at its default (it is handed
\* on to calculate_fixed_percentile_thresholds as it is), and at most one of
\* data_type, leading_values, trailing_values and percentiles is not at its
\* default.
EngineConfigs ==
    {c \in [year_type : YearTypes, min_years : 0..MaxMinYears, ignore_na : BOOLEAN,
            data_type : {"daily", "7-day"}, leading_values : {0, 1},
            trailing_values : {0, 1}, method : {"weibull"},
            percentiles : {DefaultPercentiles, <<0, 50, 100>>}] :
        Cardinality({k \in {"data_type", "leading_values", "trailing_values", "percentiles"} :
                       CASE k = "data_type" -> c.data_type # "daily"
                         [] k = "leading_values" -> c.leading_values # 0
                         [] k = "trailing_values" -> c.trailing_values # 0
                         [] OTHER -> c.percentiles # DefaultPercentiles}) <= 1}

MetaYears == {2019, 2020, 2021, 2022}

MetaValues == {NaN, Num(0), LowValue, Num(1)}

\* The samples of calculate_metadata: the empty one, and up to
\* MaxRecords + 1 dates in four years, two days a year.
MetaSamples ==
    {{}} \cup SeriesOver({[year |-> y, doy |-> d] : y \in MetaYears, d \in {1, 365}},
                         MetaValues, MaxRecords + 1)

\* The latest date of a site's frame (dates are 1..MaxDates).
MaxDates == 2

Sites == {1, 2}

WeightValues == {NaN, Num(1), Num(3)}

\* The frames of a site: consecutive dates, each with the site's runoff (the
\* site's number) or a missing value.
SiteFrames(site) ==
    {f \in [site_no : {site}, first : 1..MaxDates,
            runoff : SeqsUpTo({NaN, Num(site)}, MaxDates) \ {<<>>}] :
        f.first + Len(f.runoff) - 1 <= MaxDates}

\* The lists with at most one frame for each of the sites of the sequence.
RECURSIVE DfListsOf(_)
DfListsOf(sites) ==
    IF sites = <<>> THEN {<<>>}
    ELSE LET rest == DfListsOf(Tail(sites))
         IN  rest \cup {<<f>> \o l : f \in SiteFrames(Head(sites)), l \in rest}

DfLists == DfListsOf(Ascend(Sites))

\* The weights of a geometry: a weight, which may be missing, for each site
\* the weights matrix lists.
WeightColumns == UNION {[W -> WeightValues] : W \in SUBSET Sites \ {{}}}

\* The series and the settings of the calls whose days are taken in any
\* order: values on the first three days of two years, daily data with the
\* default percentiles and with or without leading or trailing values.
AnyOrderSeries ==
    SeriesOver({[year |-> 2019, doy |-> 1], [year |-> 2019, doy |-> 3],
                [year |-> 2020, doy |-> 2], [year |-> 2020, doy |-> 3]},
               EngineValues, MaxRecords)

AnyOrderConfigs ==
    {c \in EngineConfigs : /\ c.year_type = "calendar"
                            /\ c.data_type = "daily"
                            /\ c.percentiles = DefaultPercentiles}

\* The tables handed to rolling_average: values, some missing, on some of
\* the first days of 2019.
RollingFrames ==
    SeriesOver({[year |-> 2019, doy |-> d] : d \in 1..MaxLen}, EngineValues, MaxLen)

\* The windows handed to rolling_average, in days: '2D' and '7D'.
RollingWindows == {2, 7}

\* The largest streamflow, in cubic feet per second.
MaxFlow == 16

\* Drainage areas, in square kilometres.
Areas == {1, 250}

\* The frequencies a caller may write: the three known ones and two others.
FrequencyNames == Frequencies \cup {"weekly", "yearly"}

\* The streamflow tables: the flows of the docstring, in any order.
FlowTables == SeqsUpTo([streamflow : {14, 15, 16}], MaxLen)

\* The tables with two columns of text: approval codes in 'a', other text
\* in 'b'.
ApprovalTables == SeqsUpTo([a : {"A", "P"}, b : {"A", "B"}], MaxLen)

FilterColumns == {NoColumn, "a", "b"}

\* ------------------------------------------------------------------------
\* The caller
\* ------------------------------------------------------------------------

Idle == [fn |-> "idle"]

NoResult == [kind |-> "none"]

Init ==
    /\ call = Idle
    /\ pc = "idle"
    /\ ret = NoResult
    /\ df = {}
    /\ table = <<>>
    /\ doy = 0
    /\ invoked = {}
    /\ pending = {}

\* results = calculate_fixed_percentile_thresholds(data, percentiles, method,
\* ignore_na): it returns the frame or raises.
CallFixed ==
    /\ pc = "idle"
    /\ \E data \in Samples, percentiles \in PctLists, method \in Methods,
          ignore_na \in BOOLEAN :
         \E out \in calculate_fixed_percentile_thresholds(data, percentiles, method, ignore_na) :
            /\ call' = [fn |-> "fixed", data |-> data, percentiles |-> percentiles,
                        method |-> method, ignore_na |-> ignore_na]
            /\ pc' = IF out.raised THEN "error" ELSE "done"
            /\ ret' = IF out.raised THEN NoResult
                      ELSE [kind |-> "frame", thresholds |-> out.thresholds,
                            values |-> out.values]
    /\ UNCHANGED <<df, table, doy, invoked, pending>>

Ascending(s) == \A i, j \in DOMAIN s : i < j => s[i] < s[j]

\* The values whose percentile is asked for: halves around the data range,
\* and the whole numbers -1..101 for the sample 0..100.
InvValues(data) ==
    IF Len(data) > MaxLen THEN {Num(v) : v \in -1..101}
    ELSE {Frac(k, 2) : k \in -2..(2 * MaxVal + 2)}

\* new_percentile = calculate_percentile_from_value(value, percentile_df),
\* with the frame the last call returned.  np.interp asks for increasing
\* ranks and thresholds without NaN.
CallInvert ==
    /\ pc = "done"
    /\ call.fn = "fixed"
    /\ Ascending(ret.thresholds)
    /\ \A i \in DOMAIN ret.values : ~IsNaN(ret.values[i])
    /\ \E value \in InvValues(call.data) :
         /\ call' = [fn |-> "invert", value |-> value, percentile_df |-> ret,
                     source |-> call]
         /\ ret' = [kind |-> "percentile",
                    value |-> calculate_percentile_from_value(value, ret)]
    /\ UNCHANGED <<pc, df, table, doy, invoked, pending>>

\* meta = calculate_metadata(data)
CallMetadata ==
    /\ pc = "idle"
    /\ \E data \in MetaSamples :
         /\ call' = [fn |-> "metadata", data |-> data]
         /\ ret' = [kind |-> "meta", meta |-> calculate_metadata(data)]
    /\ pc' = "done"
    /\ UNCHANGED <<df, table, doy, invoked, pending>>

\* weighted_runoff = calculate_geometric_runoff(geoid, df_list,
\* weights_matrix, start_date, end_date)
CallRunoff ==
    /\ pc = "idle"
    /\ \E df_list \in DfLists, weights \in WeightColumns,
          start_date \in {NoDate, 1}, end_date \in {NoDate, MaxDates} :
         LET out == calculate_geometric_runoff(df_list, weights, start_date, end_date)
         IN  /\ call' = [fn |-> "runoff", df_list |-> df_list, weights |-> weights,
                         start_date |-> start_date, end_date |-> end_date]
             /\ pc' = IF out.raised THEN "error" ELSE "done"
             /\ ret' = IF out.raised THEN NoResult
                       ELSE [kind |-> "series", dates |-> out.dates, values |-> out.values]
    /\ UNCHANGED <<df, table, doy, invoked, pending>>

\* mmyr = convert_cfs_to_runoff(cfs, drainage_area, frequency)
CallConvert ==
    /\ pc = "idle"
    /\ \E cfs \in 0..MaxFlow, drainage_area \in Areas, frequency \in FrequencyNames :
         LET out == convert_cfs_to_runoff(cfs, drainage_area, frequency)
         IN  /\ call' = [fn |-> "convert", cfs |-> cfs, drainage_area |-> drainage_area,
                         frequency |-> frequency]
             /\ pc' = IF out.raised THEN "error" ELSE "done"
             /\ ret' = IF out.raised THEN NoResult
                       ELSE [kind |-> "runoff", value |-> out.value]
    /\ UNCHANGED <<df, table, doy, invoked, pending>>

\* runoff_df = streamflow_to_runoff(df, 'streamflow', drainage_area, frequency)
CallStreamflow ==
    /\ pc = "idle"
    /\ \E frame \in FlowTables, drainage_area \in Areas, frequency \in FrequencyNames :
         LET out == streamflow_to_runoff(frame, drainage_area, frequency)
         IN  /\ call' = [fn |-> "streamflow", df |-> frame,
                         drainage_area |-> drainage_area, frequency |-> frequency]
             /\ pc' = IF out.raised THEN "error" ELSE "done"
             /\ ret' = IF out.raised THEN NoResult
                       ELSE [kind |-> "rows", rows |-> out.rows]
    /\ UNCHANGED <<df, table, doy, invoked, pending>>

\* df = filter_approved_data(data, filter_column)
CallFilterApproved ==
    /\ pc = "idle"
    /\ \E data \in ApprovalTables, filter_column \in FilterColumns :
         LET out == filter_approved_data(data, filter_column)
         IN  /\ call' = [fn |-> "approved", data |-> data, filter_column |-> filter_column]
             /\ pc' = IF out.raised THEN "error" ELSE "done"
             /\ ret' = IF out.raised THEN NoResult
                       ELSE [kind |-> "rows", rows |-> out.rows]
    /\ UNCHANGED <<df, table, doy, invoked, pending>>

\* df_out = rolling_average(df, 'data', '<N>D'): the frame of the one column
\* that to_frame() names after the data column.
CallRolling ==
    /\ pc = "idle"
    /\ \E frame \in RollingFrames, window_days \in RollingWindows :
         /\ call' = [fn |-> "rolling", df |-> frame, data_column_name |-> "data",
                     window_days |-> window_days]
         /\ ret' = [kind |-> "frame", column |-> "data",
                    records |-> rolling_average(frame, window_days)]
    /\ pc' = "done"
    /\ UNCHANGED <<df, table, doy, invoked, pending>>

\* calculate_variable_percentile_thresholds_by_day, up to its loop: the year
\* and day columns, the rolling average, the range of days and the empty
\* table.  An empty frame has no smallest day: min_day is then the float 1.0
\* and range(min_day, max_day) raises TypeError.
EnterEngine(series, c) ==
    LET labelled == define_year_doy_columns(series, c.year_type, TRUE)
        frame == rolling_average(labelled, set_data_type(c.data_type))
    IN  /\ call' = [fn |-> "engine", series |-> series, year_type |-> c.year_type,
                    min_years |-> c.min_years, ignore_na |-> c.ignore_na,
                    data_type |-> c.data_type, leading_values |-> c.leading_values,
                    trailing_values |-> c.trailing_values, method |-> c.method,
                    percentiles |-> c.percentiles]
        /\ df' = frame
        /\ IF frame = {}
              THEN /\ pc' = "error"
                   /\ UNCHANGED <<table, doy>>
              ELSE /\ pc' = "loop"
                   /\ table' = [d \in TIdx(frame) |-> NaNRow(c.percentiles)]
                   /\ doy' = MinDay(frame)
        /\ ret' = NoResult
        /\ invoked' = {}

\* The call of the engine, with its loop in the order of the code.
CallEngine ==
    /\ pc = "idle"
    /\ \E series \in EngineSeries, c \in EngineConfigs : EnterEngine(series, c)
    /\ UNCHANGED pending

\* The historical data of day d, as the loop gets it.
DayData(d) ==
    filter_data_by_time(df, d, call.leading_values, call.trailing_values, call.ignore_na)

\* A wrong assignment: the row of the day is written and the row of the
\* next day is cleared.
WriteRowAndClearNext(tbl, d, row) ==
    [e \in DOMAIN tbl |->
        IF e = d THEN row
        ELSE IF e = d + 1 THEN [i \in DOMAIN row |-> NaN]
        ELSE tbl[e]]

\* percentiles_by_day.loc[t_idx == doy, :] = row
WriteRow(tbl, d, row) == [tbl EXCEPT ![d] = row]

\* The body of the loop for the day d: the sample, its metadata, the gate
\* and the row.  invoked keeps the day and the sample of each call of
\* calculate_fixed_percentile_thresholds; doy is `after` once the pass is
\* over.
LoopBody(d, after) ==
    LET data == DayData(d)
        meta == calculate_metadata(data)
    IN  IF EnoughYears(meta, call.min_years)
           THEN /\ invoked' = invoked \cup {[doy |-> d, data |-> data]}
                /\ \E _pct \in calculate_fixed_percentile_thresholds(
                                   ValuesOf(data), call.percentiles, call.method,
                                   call.ignore_na) :
                      IF _pct.raised
                         THEN /\ pc' = "error"
                              /\ doy' = d
                              /\ UNCHANGED table
                         ELSE /\ table' = WriteRow(table, d, _pct.values)
                              /\ doy' = after
                              /\ pc' = pc
           ELSE /\ table' = WriteRow(table, d, NaNRow(call.percentiles))
                /\ doy' = after
                /\ pc' = pc
                /\ UNCHANGED invoked

\* One pass of the loop, for the day doy.
DayStep ==
    /\ pc = "loop"
    /\ doy < MaxDay(df)
    /\ LoopBody(doy, doy + 1)
    /\ UNCHANGED <<call, ret, df, pending>>

\* After the loop: the multi-index, the sort and the return.
Finish ==
    /\ pc = "loop"
    /\ doy >= MaxDay(df)
    /\ ret' = [kind |-> "table", rows |-> Reindexed(table, call.year_type)]
    /\ pc' = "done"
    /\ UNCHANGED <<call, df, table, doy, invoked, pending>>

\* The call is over (it returned or raised); the caller goes on.
Return ==
    /\ pc \in {"done", "error"}
    /\ call' = Idle
    /\ pc' = "idle"
    /\ ret' = NoResult
    /\ df' = {}
    /\ table' = <<>>
    /\ doy' = 0
    /\ invoked' = {}
    /\ pending' = {}

Next ==
    \/ CallFixed
    \/ CallInvert
    \/ CallMetadata
    \/ CallRunoff
    \/ CallConvert
    \/ CallStreamflow
    \/ CallFilterApproved
    \/ CallRolling
    \/ CallEngine
    \/ DayStep
    \/ Finish
    \/ Return

Spec == Init /\ [][Next]_vars

\* The same call with the passes of its loop taken in any order: pending
\* holds the days whose pass is still to come.
CallEngineAnyOrder ==
    /\ pc = "idle"
    /\ \E series \in AnyOrderSeries, c \in AnyOrderConfigs :
         LET labelled == define_year_doy_columns(series, c.year_type, TRUE)
             frame == rolling_average(labelled, set_data_type(c.data_type))
         IN  /\ EnterEngine(series, c)
             /\ pending' = IF frame = {} THEN {} ELSE TIdx(frame)

\* The pass of the loop for one of the days still to come.
DayStepAnyOrder ==
    /\ pc = "loop"
    /\ \E d \in pending :
         /\ LoopBody(d, d)
         /\ pending' = pending \ {d}
    /\ UNCHANGED <<call, ret, df>>

\* After the last pass: the multi-index, the sort and the return.
FinishAnyOrder ==
    /\ pc = "loop"
    /\ pending = {}
    /\ ret' = [kind |-> "table", rows |-> Reindexed(table, call.year_type)]
    /\ pc' = "done"
    /\ UNCHANGED <<call, df, table, doy, invoked, pending>>

NextAnyOrder ==
    \/ CallEngineAnyOrder
    \/ DayStepAnyOrder
    \/ FinishAnyOrder
    \/ Return

SpecAnyOrder == Init /\ [][NextAnyOrder]_vars

\* ------------------------------------------------------------------------
\* Properties of the by-day engine
\* ------------------------------------------------------------------------

\* The call has returned its table.
EngineDone == call.fn = "engine" /\ pc = "done"

\* The days whose pass of the loop is over.
DoneDays == {d \in DOMAIN table : d < doy}

AllMissing(row) == \A i \in DOMAIN row : IsNaN(row[i])

AllNumeric(row) == \A i \in DOMAIN row : IsFinite(row[i])

MetaOfDay(d) == calculate_metadata(DayData(d))

\* C1: a day whose sample has fewer than min_years years gets a row of
\* missing values in every percentile column.
C1_TooFewYearsRowMissing ==
    EngineDone =>
        \A d \in DoneDays :
            MetaOfDay(d).n_years < call.min_years => AllMissing(table[d])

\* C1 happens: the call has returned a table with a row that is missing for
\* lack of years (its sample has data) next to a row with thresholds.
C1_Witness ==
    /\ EngineDone
    /\ \E d, e \in DoneDays :
          /\ DayData(d) # {}
          /\ MetaOfDay(d).n_years < call.min_years
          /\ AllMissing(table[d])
          /\ AllNumeric(table[e])

\* C2 as claimed: a day whose sample has at least min_years years gets a
\* number in every percentile column, whatever ignore_na is.
C2_EnoughYearsRowNumeric ==
    EngineDone =>
        \A d \in DoneDays :
            MetaOfDay(d).n_years >= call.min_years => AllNumeric(table[d])

\* C2 amended: a day whose sample has at least min_years years, at least one
\* value and no missing value gets a number in every percentile column.
C2_EnoughYearsAndValuesRowNumeric ==
    EngineDone =>
        \A d \in DoneDays :
            /\ MetaOfDay(d).n_years >= call.min_years
            /\ DayData(d) # {}
            /\ \A r \in DayData(d) : ~IsNaN(r.val)
            => AllNumeric(table[d])

\* C2 happens: with ignore_na off, a day with exactly min_years years of
\* values, none missing, has its thresholds.
C2_Witness ==
    /\ EngineDone
    /\ ~call.ignore_na
    /\ call.min_years >= 1
    /\ \E d \in DoneDays :
          /\ MetaOfDay(d).n_years = call.min_years
          /\ \A r \in DayData(d) : ~IsNaN(r.val)
          /\ AllNumeric(table[d])

\* The days of year of the frame the loop runs over.
ObservedDays == {r.doy : r \in df}

\* C3 as claimed: the returned table has one row for each day of year from
\* the smallest to the largest observed one, both included, and no other.
C3_RowForEachObservedDay ==
    EngineDone =>
        /\ DOMAIN table = SetMin(ObservedDays)..SetMax(ObservedDays)
        /\ Len(ret.rows) = SetMax(ObservedDays) - SetMin(ObservedDays) + 1

\* The ordinal (1..365) of a month-day label.
OrdinalOf(month_day) == DaysBeforeMonth(month_day[1]) + month_day[2]

\* The day of the cycle that starts on ordinal `start`, counted round the
\* 365 days.
DayOfCycle(r, start) == ((r + 365 - start) % 365) + 1

\* C4: the doy of a row is its ordinal for a calendar year, its day in the
\* cycle from October 1 (ordinal 274) for a water year and from April 1
\* (ordinal 91) for a climate year; so 10-01 is water day 1, 09-30 water
\* day 365, 01-01 water day 93 and climate day 276, 04-01 climate day 1 and
\* 03-31 climate day 365.
C4_RelativeDayOfYear ==
    EngineDone =>
        \A k \in DOMAIN ret.rows :
            LET row == ret.rows[k]
                r == OrdinalOf(row.month_day)
            IN  /\ r \in 1..365
                /\ call.year_type = "calendar" => row.doy = r
                /\ call.year_type = "water" => row.doy = DayOfCycle(r, 274)
                /\ call.year_type = "climate" => row.doy = DayOfCycle(r, 91)
                /\ (call.year_type = "water" /\ row.month_day = <<10, 1>>) => row.doy = 1
                /\ (call.year_type = "water" /\ row.month_day = <<9, 30>>) => row.doy = 365
                /\ (call.year_type = "water" /\ row.month_day = <<1, 1>>) => row.doy = 93
                /\ (call.year_type = "climate" /\ row.month_day = <<1, 1>>) => row.doy = 276
                /\ (call.year_type = "climate" /\ row.month_day = <<4, 1>>) => row.doy = 1
                /\ (call.year_type = "climate" /\ row.month_day = <<3, 31>>) => row.doy = 365

\* C4 happens: a water-year table of all 365 ordinals, where October 1 is
\* day 1, September 30 day 365 and January 1 day 93.
C4_Witness ==
    /\ EngineDone
    /\ call.year_type = "water"
    /\ Len(ret.rows) = 365
    /\ ret.rows[1].month_day = <<10, 1>> /\ ret.rows[1].doy = 1
    /\ ret.rows[365].month_day = <<9, 30>> /\ ret.rows[365].doy = 365
    /\ ret.rows[93].month_day = <<1, 1>> /\ ret.rows[93].doy = 93

\* ------------------------------------------------------------------------
\* Properties of the fixed thresholds and of their inversion
\* ------------------------------------------------------------------------

\* calculate_percentile_from_value has returned.
Inverted == call.fn = "invert" /\ ret.kind = "percentile"

\* The thresholds and the ranks of the row that was inverted.
RowValues == call.percentile_df.values

RowRanks == call.percentile_df.thresholds

BelowRow == RLt(call.value, RowValues[1])

AboveRow == RLt(RowValues[Len(RowValues)], call.value)

\* The line through the columns i and i + 1 of the row, at x.
SegmentLine(i, x) ==
    RAdd(Num(RowRanks[i]),
         RMul(RDiv(Num(RowRanks[i + 1] - RowRanks[i]),
                   RSub(RowValues[i + 1], RowValues[i])),
              RSub(x, RowValues[i])))

\* C5 as claimed: a value below the smallest or above the largest threshold
\* of the row gets the rank on the line of the nearest boundary segment,
\* carried on beyond the row (no clamping).
C5_OutsideRowExtrapolated ==
    Inverted =>
        LET n == Len(RowValues)
        IN  /\ (BelowRow /\ RLt(RowValues[1], RowValues[2]))
                => REq(ret.value, SegmentLine(1, call.value))
            /\ (AboveRow /\ RLt(RowValues[n - 1], RowValues[n]))
                => REq(ret.value, SegmentLine(n - 1, call.value))

\* C5 amended: a value below the smallest threshold of the row gets the
\* lowest rank of the row, a value above the largest threshold the highest
\* rank: the result is clamped to the ranks of the row.
C5_OutsideRowClamped ==
    Inverted =>
        /\ BelowRow => ret.value = Num(RowRanks[1])
        /\ AboveRow => ret.value = Num(RowRanks[Len(RowRanks)])

\* C5 happens: a value above the largest of strictly increasing thresholds
\* was inverted, and the answer is the highest rank.
C5_Witness ==
    /\ Inverted
    /\ AboveRow
    /\ RLt(RowValues[Len(RowValues) - 1], RowValues[Len(RowValues)])
    /\ ret.value = Num(100)

\* The median of a non-empty sequence without NaN.
Median(a) ==
    LET b == SortValues(a)
        n == Len(b)
    IN  IF n % 2 = 1 THEN b[(n + 1) \div 2]
        ELSE RDiv(RAdd(b[n \div 2], b[n \div 2 + 1]), Num(2))

StrictlyIncreasing(row) == \A i, j \in DOMAIN row : i < j => RLt(row[i], row[j])

\* C6: when the thresholds of a sample at the ranks 0, 50, 100 are strictly
\* increasing, the percentile of the sample's median is 50; and with the
\* thresholds of the values 0..100 by method 'linear', the percentile of
\* every whole v in 0..100 is v.
C6_RoundTrip ==
    Inverted =>
        /\ ( /\ RowRanks = <<0, 50, 100>>
             /\ StrictlyIncreasing(RowValues)
             /\ call.value = Median(DropNaN(call.source.data)) )
            => ret.value = Num(50)
        /\ ( /\ call.source.data = Arange101
             /\ call.source.method = "linear"
             /\ \E v \in 0..100 : call.value = Num(v) )
            => ret.value = call.value

\* C6 happens: the median of a sample with a missing value and an even
\* number of other values, between two of them, was inverted to 50.
C6_Witness ==
    /\ Inverted
    /\ RowRanks = <<0, 50, 100>>
    /\ StrictlyIncreasing(RowValues)
    /\ Len(DropNaN(call.source.data)) = 2
    /\ call.value = Median(DropNaN(call.source.data))
    /\ ret.value = Num(50)

\* C6 happens, second part: 51 was inverted to 51 on the default ranks of
\* the values 0..100.
C6_WitnessArange ==
    /\ Inverted
    /\ call.source.data = Arange101
    /\ call.source.method = "linear"
    /\ RowRanks = DefaultPercentiles
    /\ call.value = Num(51)
    /\ ret.value = Num(51)

\* calculate_fixed_percentile_thresholds has returned.
FixedDone == call.fn = "fixed" /\ pc = "done" /\ ret.kind = "frame"

\* The values of a row do not decrease as the ranks grow.
NonDecreasing(ranks, row) ==
    \A i, j \in DOMAIN ranks : ranks[i] <= ranks[j] => RLe(row[i], row[j])

\* C7 as claimed: for every non-empty sample the thresholds do not decrease
\* as the rank grows.
C7_NonEmptySampleMonotone ==
    (FixedDone /\ Len(call.data) > 0) => NonDecreasing(ret.thresholds, ret.values)

\* C7 amended: whenever the thresholds of a sample are not missing they do
\* not decrease as the rank grows, and so for every row of the by-day table
\* without a missing value; the thresholds of the values 0..100 by method
\* 'linear' at the default ranks are the ranks.
C7_NonMissingThresholdsMonotone ==
    /\ (FixedDone /\ AllNumeric(ret.values))
        => NonDecreasing(ret.thresholds, ret.values)
    /\ EngineDone =>
        \A d \in DOMAIN table :
            AllNumeric(table[d]) => NonDecreasing(call.percentiles, table[d])
    /\ ( /\ FixedDone
         /\ call.data = Arange101
         /\ call.method = "linear"
         /\ call.percentiles = DefaultPercentiles )
        => ret.values = [i \in DOMAIN DefaultPercentiles |-> Num(DefaultPercentiles[i])]

\* C7 happens: ranks asked for in the order 90, 10 came back with the
\* threshold of 10 strictly below the threshold of 90.
C7_Witness ==
    /\ FixedDone
    /\ call.percentiles = <<90, 10>>
    /\ AllNumeric(ret.values)
    /\ RLt(ret.values[2], ret.values[1])

\* ------------------------------------------------------------------------
\* Properties of the geometric runoff
\* ------------------------------------------------------------------------

\* calculate_geometric_runoff was called (it has returned or raised).
RunoffCalled == call.fn = "runoff"

RunoffDone == call.fn = "runoff" /\ pc = "done"

\* The sites that have a frame in the list.
SitesOf(df_list) == {df_list[i].site_no : i \in DOMAIN df_list}

\* The frame of a site in the list.
FrameOf(df_list, site) == df_list[CHOOSE i \in DOMAIN df_list : df_list[i].site_no = site]

\* The sites whose contribution is in the weighted sum: a frame in the list
\* and a weight that is not missing.
UsedSites == {site \in SitesOf(call.df_list) : ~IsNaN(call.weights[site])}

\* C8 as claimed: on a date every frame has a value for, the returned value
\* is the sum of weight x runoff over the used sites, divided by the sum of
\* the weights of the used sites alone.
C8_DividedByUsedWeights ==
    (RunoffDone /\ UsedSites # {}) =>
        \A t \in ret.dates :
            (\A site \in SitesOf(call.df_list) :
                ~IsNaN(RunoffAt(FrameOf(call.df_list, site), t)))
            => LET sites == Ascend(UsedSites)
                   products == [k \in DOMAIN sites |->
                                   RMul(call.weights[sites[k]],
                                        RunoffAt(FrameOf(call.df_list, sites[k]), t))]
                   used == [k \in DOMAIN sites |-> call.weights[sites[k]]]
               IN  REq(ret.values[t], RDiv(SumSeq(products), SumSeq(used)))

\* The list without the frames of a site.
WithoutSite(df_list, site) ==
    LET Other(f) == f.site_no # site
    IN  SelectSeq(df_list, Other)

\* The sites of the list whose weight is there but missing.
UnweightedSites ==
    {site \in SitesOf(call.df_list) : site \in DOMAIN call.weights /\ IsNaN(call.weights[site])}

\* The weights matrix lists every site of the list.
AllSitesListed == SitesOf(call.df_list) \subseteq DOMAIN call.weights

\* The outcome of the same call without the frames of a site.
OutcomeWithout(site) ==
    calculate_geometric_runoff(WithoutSite(call.df_list, site), call.weights,
                               call.start_date, call.end_date)

\* C9 as claimed: with a site of missing weight the call raises nothing and
\* returns the series of the call without the frame of that site.
C9_SameAsWithoutFrame ==
    (RunoffCalled /\ AllSitesListed) =>
        \A site \in UnweightedSites :
            /\ pc = "done"
            /\ ~OutcomeWithout(site).raised
            /\ OutcomeWithout(site).dates = ret.dates
            /\ OutcomeWithout(site).values = ret.values

\* C9 amended: with a site of missing weight the call raises nothing, and on
\* each date of the series of the call without the frame of that site the
\* two series have the same value; with start_date and end_date both given
\* the two series are equal.
C9_SameValuesAsWithoutFrame ==
    (RunoffCalled /\ AllSitesListed) =>
        \A site \in UnweightedSites :
            LET other == OutcomeWithout(site)
            IN  /\ pc = "done"
                /\ ~other.raised =>
                      /\ other.dates \subseteq ret.dates
                      /\ \A t \in other.dates : other.values[t] = ret.values[t]
                /\ (call.start_date # NoDate /\ call.end_date # NoDate) =>
                      /\ ~other.raised
                      /\ other.dates = ret.dates
                      /\ other.values = ret.values

\* C9 happens: a site with runoff and a missing weight next to a site with
\* runoff and a weight; the series is the other site's alone.
C9_Witness ==
    /\ RunoffDone
    /\ call.start_date # NoDate /\ call.end_date # NoDate
    /\ Len(call.df_list) = 2
    /\ \E site \in UnweightedSites :
          /\ \E t \in ret.dates : IsFinite(RunoffAt(FrameOf(call.df_list, site), t))
          /\ OutcomeWithout(site).values = ret.values
    /\ \E t \in ret.dates : IsFinite(ret.values[t]) /\ ~REq(ret.values[t], Num(0))

\* ------------------------------------------------------------------------
\* Properties of the metadata
\* ------------------------------------------------------------------------

MetaDone == call.fn = "metadata" /\ ret.kind = "meta"

YearsOf(data) == {r.year : r \in data}

\* The years between the first and the last year of the sample.
SpanOf(data) == SetMin(YearsOf(data))..SetMax(YearsOf(data))

\* The sample without the points of a year.
WithoutYear(data, y) == {r \in data : r.year # y}

\* C10: for a non-empty sample n_years is the number of distinct years of
\* its dates and n_gaps is (last year - first year + 1) - n_years, the
\* number of years in between without a point; without the points of an
\* interior year n_years is one less and n_gaps one more; a point more or
\* less in a year that keeps a point changes neither.
C10_YearsAndGaps ==
    (MetaDone /\ call.data # {}) =>
        LET data == call.data
            meta == ret.meta
            first == SetMin(YearsOf(data))
            last == SetMax(YearsOf(data))
        IN  /\ meta.n_years = Cardinality({y \in MetaYears : \E r \in data : r.year = y})
            /\ meta.n_gaps = Num((last - first + 1) - meta.n_years)
            /\ meta.n_gaps = Num(Cardinality(SpanOf(data) \ YearsOf(data)))
            /\ \A y \in YearsOf(data) \ {first, last} :
                  LET less == calculate_metadata(WithoutYear(data, y))
                  IN  /\ less.n_years = meta.n_years - 1
                      /\ less.n_gaps = RAdd(meta.n_gaps, Num(1))
            /\ \A r \in data :
                  (\E q \in data : q # r /\ q.year = r.year) =>
                      LET less == calculate_metadata(data \ {r})
                      IN  less.n_years = meta.n_years /\ less.n_gaps = meta.n_gaps
            /\ \A r \in data, d \in {1, 365}, v \in MetaValues :
                  LET more == calculate_metadata(data \cup {[year |-> r.year, doy |-> d, val |-> v]})
                  IN  more.n_years = meta.n_years /\ more.n_gaps = meta.n_gaps

\* C10 happens: three years in a row, no gap; without the middle one, two
\* years and one gap.
C10_Witness ==
    /\ MetaDone
    /\ \E y \in MetaYears :
          /\ YearsOf(call.data) = {y - 1, y, y + 1}
          /\ ret.meta.n_years = 3
          /\ ret.meta.n_gaps = Num(0)
          /\ calculate_metadata(WithoutYear(call.data, y)).n_years = 2
          /\ calculate_metadata(WithoutYear(call.data, y)).n_gaps = Num(1)

\* C11 as claimed: the metadata of an empty sample has every count at zero
\* (n_years, n_data, n_gaps, n_zeros, n_nans, n_lows) and its start_date and
\* end_date undefined; nothing is raised.
C11_EmptySampleAllZero ==
    (MetaDone /\ call.data = {}) =>
        /\ ret.meta.n_years = 0
        /\ ret.meta.n_data = 0
        /\ ret.meta.n_gaps = Num(0)
        /\ ret.meta.n_zeros = 0
        /\ ret.meta.n_nans = 0
        /\ ret.meta.n_lows = 0
        /\ ret.meta.start_date = NaT
        /\ ret.meta.end_date = NaT

\* C12 as claimed: n_data counts the values of the sample that are not
\* missing, so n_data + n_nans is the number of entries; and every zero is
\* counted in n_zeros and in n_lows.
C12_DataCountsNonMissing ==
    MetaDone =>
        LET zeros == {r \in call.data : r.val = Num(0)}
        IN  /\ ret.meta.n_data = Cardinality({r \in call.data : ~IsNaN(r.val)})
            /\ ret.meta.n_data + ret.meta.n_nans = Cardinality(call.data)
            /\ ret.meta.n_zeros = Cardinality(zeros)
            /\ zeros \subseteq {r \in call.data : RLe(r.val, LowValue)}
            /\ ret.meta.n_lows >= ret.meta.n_zeros

\* A call of the engine is under way or over.
EngineCalled == call.fn = "engine"

\* C13 as claimed: whatever min_years is, calculate_fixed_percentile_thresholds
\* is never called on an empty sample.
C13_NeverEstimatesEmptySample ==
    EngineCalled => \A e \in invoked : e.data # {}

\* C13 amended: the estimator is called only for a sample that passed the
\* gate on its metadata, and when min_years is at least 1 never on an empty
\* sample.
C13_GatedEstimatorNonEmptySample ==
    EngineCalled =>
        \A e \in invoked :
            /\ calculate_metadata(e.data).n_years >= call.min_years
            /\ call.min_years >= 1 => e.data # {}

\* C13 happens: with min_years at least 1 the table is returned, the
\* estimator was called for a day, and it was not for a day of the table
\* whose sample is empty.
C13_Witness ==
    /\ EngineDone
    /\ call.min_years >= 1
    /\ invoked # {}
    /\ \E d \in DOMAIN table :
          /\ DayData(d) = {}
          /\ \A e \in invoked : e.doy # d

\* ------------------------------------------------------------------------
\* Properties of the configuration errors and of the conversion
\* ------------------------------------------------------------------------

\* The rows of a table whose column holds 'A', in the order of the table.
RECURSIVE ApprovedRows(_, _)
ApprovedRows(data, column) ==
    IF data = <<>> THEN <<>>
    ELSE IF Head(data)[column] = "A"
        THEN <<Head(data)>> \o ApprovedRows(Tail(data), column)
    ELSE ApprovedRows(Tail(data), column)

\* C14 as claimed: convert_cfs_to_runoff raises for every frequency other
\* than 'annual', 'monthly', 'daily'; streamflow_to_runoff with such a
\* frequency raises for every table and returns none; filter_approved_data
\* raises without a filter column and otherwise returns the rows whose
\* column is 'A', in their order.
C14_InvalidConfigurationRaises ==
    /\ (call.fn = "convert" /\ call.frequency \notin {"annual", "monthly", "daily"})
        => (pc = "error" /\ ret = NoResult)
    /\ (call.fn = "streamflow" /\ call.frequency \notin {"annual", "monthly", "daily"})
        => (pc = "error" /\ ret = NoResult)
    /\ (call.fn = "approved" /\ call.filter_column = NoColumn)
        => (pc = "error" /\ ret = NoResult)
    /\ (call.fn = "approved" /\ call.filter_column # NoColumn)
        => (pc = "done" /\ ret.rows = ApprovedRows(call.data, call.filter_column))

ConvertDone == call.fn = "convert" /\ pc = "done"

StreamflowDone == call.fn = "streamflow" /\ pc = "done"

\* The days of a period: 365.25 in a year, a twelfth of that in a month.
DaysIn(frequency) ==
    IF frequency = "annual" THEN QFrac(1461, 4)
    ELSE IF frequency = "monthly" THEN QFrac(1461, 48)
    ELSE QOf(1)

\* cfs x 86400 x P x 0.3048^3 / (area x 10^6) x 1000
RunoffFormula(cfs, area, frequency) ==
    LET \* 0.3048^3 = 0.028316846592 = 28316846592 / 10^12, in digits of
        \* base 10000
        cubic_foot == [n |-> <<6592, 1684, 283>>, d |-> <<0, 0, 0, 1>>]
        volume == QMul(QMul(QMul(QOf(cfs), QOf(86400)), DaysIn(frequency)), cubic_foot)
    IN  QMul(QDiv(volume, QMul(QOf(area), QOf(1000000))), QOf(1000))

\* x lies strictly between lo / 100 and hi / 100.
Between(x, lo, hi) == ~QLe(x, QFrac(lo, 100)) /\ ~QLe(QFrac(hi, 100), x)

ValueOf(cfs, area, frequency) == convert_cfs_to_runoff(cfs, area, frequency).value

\* C16: the runoff of a flow is cfs x 86400 x P x 0.3048^3 / (area x 10^6)
\* x 1000, P the days of the frequency; the annual value is 12 times the
\* monthly and 365.25 times the daily one; the value of a sum of flows is
\* the sum of their values; 14 cfs over 250 km2 round to 50 a year; and
\* streamflow_to_runoff writes this value of the flow of each row into
\* 'runoff' (14, 15, 16 cfs over 250 km2: 50.0, 53.6, 57.2).
C16_RunoffFormula ==
    /\ ConvertDone =>
        /\ QEq(ret.value, RunoffFormula(call.cfs, call.drainage_area, call.frequency))
        /\ call.frequency = "annual" =>
              /\ QEq(ret.value,
                     QMul(QOf(12), ValueOf(call.cfs, call.drainage_area, "monthly")))
              /\ QEq(ret.value,
                     QMul(QFrac(36525, 100), ValueOf(call.cfs, call.drainage_area, "daily")))
        /\ \A part \in 0..call.cfs :
              QEq(ret.value,
                  QAdd(ValueOf(part, call.drainage_area, call.frequency),
                       ValueOf(call.cfs - part, call.drainage_area, call.frequency)))
        /\ (call.cfs = 14 /\ call.drainage_area = 250 /\ call.frequency = "annual")
              => Between(ret.value, 4950, 5050)
    /\ StreamflowDone =>
        /\ Len(ret.rows) = Len(call.df)
        /\ \A i \in DOMAIN call.df :
              /\ ret.rows[i].streamflow = call.df[i].streamflow
              /\ QEq(ret.rows[i].runoff,
                     RunoffFormula(call.df[i].streamflow, call.drainage_area, call.frequency))
              /\ (call.drainage_area = 250 /\ call.frequency = "annual") =>
                    /\ call.df[i].streamflow = 14 => Between(ret.rows[i].runoff, 4995, 5005)
                    /\ call.df[i].streamflow = 15 => Between(ret.rows[i].runoff, 5355, 5365)
                    /\ call.df[i].streamflow = 16 => Between(ret.rows[i].runoff, 5715, 5725)

\* C16 happens: the table 14, 15, 16 cfs over 250 km2 came back with the
\* annual runoff 50.0, 53.6, 57.2 to one decimal.
C16_Witness ==
    /\ StreamflowDone
    /\ call.df = <<[streamflow |-> 14], [streamflow |-> 15], [streamflow |-> 16]>>
    /\ call.drainage_area = 250
    /\ call.frequency = "annual"
    /\ Between(ret.rows[1].runoff, 4995, 5005)
    /\ Between(ret.rows[2].runoff, 5355, 5365)
    /\ Between(ret.rows[3].runoff, 5715, 5725)

\* ------------------------------------------------------------------------
\* Properties of the rolling average
\* ------------------------------------------------------------------------

\* The records of a series on the n days that end with the day of r.
WindowOf(series, r, n) ==
    {q \in series : /\ AbsDay(q.year, q.doy) > AbsDay(r.year, r.doy) - n
                    /\ AbsDay(q.year, q.doy) <= AbsDay(r.year, r.doy)}

\* Each of the n days has a record with a value.
WindowComplete(series, r, n) ==
    Cardinality({q \in WindowOf(series, r, n) : ~IsNaN(q.val)}) = n

\* The averaged series is what C15 says of the series: on each date the mean
\* of the n days that end there, and missing when one of them is missing or
\* has no data.
AveragedAsClaimed(series, averaged, n) ==
    /\ {DateOf(r) : r \in averaged} = {DateOf(r) : r \in series}
    /\ \A r \in averaged :
          IF WindowComplete(series, r, n)
             THEN r.val = RDiv(SumSeq(ValuesOf(WindowOf(series, r, n))), Num(n))
          ELSE IsNaN(r.val)

\* C15 as claimed: with an N-day data type the value of a date is the mean
\* of the N days ending at that date and is missing whenever one of those
\* days is missing or has no data; rolling_average leaves its input as it
\* is and keeps the name of the data column.
C15_MissingDayMakesAverageMissing ==
    /\ (call.fn = "rolling" /\ pc = "done") =>
          /\ AveragedAsClaimed(call.df, ret.records, call.window_days)
          /\ ret.column = call.data_column_name
    /\ (call.fn = "engine" /\ call.data_type # "daily" /\ pc = "loop") =>
          AveragedAsClaimed({r \in call.series : ~IsLeapDay(r)},
                            {[year |-> r.year, doy |-> r.doy, val |-> r.val] : r \in df},
                            set_data_type(call.data_type))

\* ------------------------------------------------------------------------
\* Properties of the index of the table
\* ------------------------------------------------------------------------

RowOfDay(d) ==
    LET data == DayData(d)
    IN  IF EnoughYears(calculate_metadata(data), call.min_years)
           THEN LET outcomes == calculate_fixed_percentile_thresholds(
                                    ValuesOf(data), call.percentiles, call.method,
                                    call.ignore_na)
                IN  (CHOOSE o \in outcomes : ~o.raised).values
        ELSE NaNRow(call.percentiles)

\* The table of the loop of the code: the days from d on, in ascending order.
RECURSIVE SequentialLoop(_, _)
SequentialLoop(tbl, d) ==
    IF d >= MaxDay(df) THEN tbl
    ELSE SequentialLoop(WriteRow(tbl, d, RowOfDay(d)), d + 1)

SequentialTable ==
    SequentialLoop([d \in TIdx(df) |-> NaNRow(call.percentiles)], MinDay(df))

\* C18: with the days taken in any order, the rows and the columns of the
\* table stay those set before the loop, the row of a day still to come is
\* untouched, the row of a day that had its pass is the row of that day's
\* sample alone, and the table returned is the table of the loop of the
\* code.
C18_AnyOrderSameTable ==
    (EngineCalled /\ pc \in {"loop", "done"}) =>
        /\ DOMAIN table = TIdx(df)
        /\ \A d \in DOMAIN table :
              /\ DOMAIN table[d] = DOMAIN call.percentiles
              /\ d \in pending => table[d] = NaNRow(call.percentiles)
              /\ d \notin pending => table[d] = RowOfDay(d)
        /\ pc = "done" =>
              /\ table = SequentialTable
              /\ ret.rows = Reindexed(SequentialTable, call.year_type)

\* C18 happens: the table is returned with thresholds in two rows, and the
\* later of the two days had its pass first (the last pass was the earlier
\* day's).
C18_Witness ==
    /\ EngineDone
    /\ pending = {}
    /\ \E d, e \in DOMAIN table :
          /\ d < e
          /\ doy = d
          /\ AllNumeric(table[d]) /\ AllNumeric(table[e])
          /\ table[d] # table[e]
    /\ table = SequentialTable

=============================================================================
